---- MODULE Spec2Model ----
(***************************************************************************)
(* `docker stack ls`: runList (cli/command/stack/list.go) asks the swarm   *)
(* backend and the kubernetes backend for their stacks, merges the two     *)
(* lists, sorts them by name and hands them to the formatter.  The        *)
(* kubernetes side (cli/command/stack/kubernetes/list.go) lists either    *)
(* every namespace with one query, the namespaces named on the command    *)
(* line, or, when the all-namespaces query is forbidden, the namespaces   *)
(* the daemon reports as visible to the user.                              *)
(***************************************************************************)
EXTENDS Integers, Sequences, FiniteSets, TLC

(***************************************************************************)
(* Bounds of the model.                                                    *)
(***************************************************************************)
\* longest value of the repeatable --namespace flag
MaxFlagLen == 2
\* longest namespace list the discovery endpoint answers with
MaxDiscovered == 2
\* most stacks one backend answer holds
MaxResp == 1

(***************************************************************************)
(* Values.                                                                 *)
(***************************************************************************)
\* namespace names; "default" is the default value of the --namespace flag
Namespaces == {"default", "a", "b"}
\* metav1.NamespaceAll: the scope of a query over every namespace
NamespaceAll == ""
\* stack names, as byte strings: "s2" and "s10"
StackNames == {<<115, 50>>, <<115, 49, 48>>}
\* the services of each stack: "s2" has two, "s10" has none
StackServices == (<<115, 50>> :> <<"web", "db">>) @@ (<<115, 49, 48>> :> <<>>)
\* opts.Format: empty unless --format was given
Formats == {"", "custom"}
\* the error value nil
NoErr == [kind |-> "nil", call |-> 0]

VARIABLES
    orchestrator,    \* dockerCli.ClientInfo(): "swarm", "kubernetes" or "all"
    flagNamespaces,  \* value of the --namespace string slice flag
    flagChanged,     \* flags.Changed("namespace")
    opts,            \* options.List held by the caller of runList
    configNamespace, \* current namespace of the kubernetes client configuration
    pc,              \* position of the invocation
    stacks,          \* runList's slice of stacks
    wopts,           \* the copy of opts the kubernetes functions work on
    kstacks,         \* the slice of stacks built by the kubernetes functions
    kerr,            \* the error of the all-namespaces query
    nms,             \* discovered namespaces still to be listed (fallback loop)
    mnms,            \* explicit namespaces still to be listed (map being ranged over)
    trace,           \* every call made to a collaborator, in order
    retErr,          \* the error runList returned
    handed,          \* what format handed to formatter.StackWrite
    pair             \* two invocations set side by side (NoPair when there is one)

vars == <<orchestrator, flagNamespaces, flagChanged, opts, configNamespace,
          pc, stacks, wopts, kstacks, kerr, nms, mnms, trace, retErr, handed,
          pair>>

env == <<orchestrator, flagNamespaces, flagChanged, opts, configNamespace,
         pair>>

(***************************************************************************)
(* Sequences.                                                              *)
(***************************************************************************)
SeqsUpTo(S, n) == UNION {[1..k -> S] : k \in 0..n}

Range(s) == {s[i] : i \in DOMAIN s}

NoDup(s) == \A i, j \in DOMAIN s : i # j => s[i] # s[j]

(***************************************************************************)
(* Capabilities of the client.                                             *)
(***************************************************************************)
HasSwarm == orchestrator \in {"swarm", "all"}

HasKubernetes == orchestrator \in {"kubernetes", "all"}

HasAll == orchestrator = "all"

(***************************************************************************)
(* Errors and the log of calls.                                            *)
(***************************************************************************)
\* an error value: its kind and the position in trace of the call that made it
Err(kind, call) == [kind |-> kind, call |-> call]

\* the URL of a call that sends no HTTP request
NoURL == [scheme |-> "", host |-> "", path |-> ""]

\* the client configuration read by a call that reads none
NoCfg == [tls |-> "", host |-> NoURL, parses |-> FALSE]

\* the body of an exchange that gave none
NoBody == <<>>

\* the response of a call that sends no HTTP request
NoResp == [get |-> "none", read |-> FALSE, status |-> 0, body |-> NoBody]

\* one call to a collaborator, with what the collaborator answered: op is "swarm" (swarm.GetStacks), "wrapcli" (a
\* kubernetes client that could not be built), "list" (stackSvc.List),
\* "discover" (getUserVisibleNamespaces) or "format" (formatter.StackWrite)
Call(op, all, req, ns, kind, recs) ==
    [op |-> op, all |-> all, req |-> req, ns |-> ns, err |-> kind,
     recs |-> recs, url |-> NoURL, items |-> <<>>, cfg |-> NoCfg,
     resp |-> NoResp, msg |-> <<>>]

\* a call of getUserVisibleNamespaces: the client configuration it read, the
\* URL it requested (NoURL when it sent no request), the response and what
\* it returned
DiscoverCall(cfg, d) ==
    [op |-> "discover", all |-> FALSE, req |-> "", ns |-> "", err |-> d.err,
     recs |-> <<>>, url |-> d.url, items |-> d.items, cfg |-> cfg,
     resp |-> d.resp, msg |-> d.msg]

(***************************************************************************)
(* Natural ordering of names (sortorder.NaturalLess).                      *)
(***************************************************************************)
isdigit(b) == 48 <= b /\ b <= 57

RECURSIVE EatZeros(_, _)
EatZeros(str, idx) ==
    IF idx <= Len(str) /\ str[idx] = 48 THEN EatZeros(str, idx + 1) ELSE idx

RECURSIVE EatDigits(_, _)
EatDigits(str, idx) ==
    IF idx <= Len(str) /\ isdigit(str[idx]) THEN EatDigits(str, idx + 1) ELSE idx

\* bytewise s < t
RECURSIVE BytesLess(_, _)
BytesLess(s, t) ==
    IF t = <<>> THEN FALSE
    ELSE IF s = <<>> THEN TRUE
    ELSE IF s[1] # t[1] THEN s[1] < t[1]
    ELSE BytesLess(Tail(s), Tail(t))

RECURSIVE NaturalLessFrom(_, _, _, _)
NaturalLessFrom(str1, str2, idx1, idx2) ==
    IF ~(idx1 <= Len(str1) /\ idx2 <= Len(str2))
    THEN Len(str1) < Len(str2)
    ELSE LET c1 == str1[idx1]
             c2 == str2[idx2]
             dig1 == isdigit(c1)
             dig2 == isdigit(c2)
         IN  IF dig1 # dig2 THEN dig1
             ELSE IF ~dig1
             THEN IF c1 # c2 THEN c1 < c2
                  ELSE NaturalLessFrom(str1, str2, idx1 + 1, idx2 + 1)
             ELSE LET nonZero1 == EatZeros(str1, idx1)
                      nonZero2 == EatZeros(str2, idx2)
                      end1 == EatDigits(str1, nonZero1)
                      end2 == EatDigits(str2, nonZero2)
                      len1 == end1 - nonZero1
                      len2 == end2 - nonZero2
                      nr1 == SubSeq(str1, nonZero1, end1 - 1)
                      nr2 == SubSeq(str2, nonZero2, end2 - 1)
                  IN  IF len1 # len2 THEN len1 < len2
                      ELSE IF nr1 # nr2 THEN BytesLess(nr1, nr2)
                      ELSE IF nonZero1 # nonZero2 THEN nonZero1 < nonZero2
                      ELSE NaturalLessFrom(str1, str2, end1, end2)

NaturalLess(str1, str2) == NaturalLessFrom(str1, str2, 1, 1)

\* the orders in which the records of s at the positions I may come out of
\* a sort by name: a record that no other one is less than comes first
RECURSIVE Arrange(_, _)
Arrange(s, I) ==
    IF I = {} THEN {<<>>}
    ELSE UNION {{<<s[i]>> \o t : t \in Arrange(s, I \ {i})} :
                    i \in {k \in I : \A j \in I :
                                ~NaturalLess(s[j].Name, s[k].Name)}}

\* Arrange with the names compared byte by byte
RECURSIVE Arrange_bytewise(_, _)
Arrange_bytewise(s, I) ==
    IF I = {} THEN {<<>>}
    ELSE UNION {{<<s[i]>> \o t : t \in Arrange_bytewise(s, I \ {i})} :
                    i \in {k \in I : \A j \in I :
                                ~BytesLess(s[j].Name, s[k].Name)}}

\* sort.Slice with the names compared byte by byte
SortSlice_bytewise(s) == Arrange_bytewise(s, DOMAIN s)

\* sort.Slice(stacks, less by Name): the results the sort may produce.  The
\* sort is not stable, so records with equivalent names come in any order.
SortSlice(s) == Arrange(s, DOMAIN s)

(***************************************************************************)
(* The swarm backend.                                                      *)
(***************************************************************************)
\* what swarm.GetStacks may answer: an error, or stacks with distinct names
SwarmOutcomes ==
    {[err |-> "SwarmError", recs |-> <<>>]}
    \cup {[err |-> "nil", recs |-> r] :
            r \in {q \in SeqsUpTo({[Name |-> n,
                                    Services |-> Len(StackServices[n]),
                                    Orchestrator |-> "Swarm",
                                    Namespace |-> ""] : n \in StackNames},
                                  MaxResp) : NoDup(q)}}

(***************************************************************************)
(* The kubernetes client.                                                  *)
(***************************************************************************)
\* NewOptions(flags): no namespace given; "namespace" is a string slice flag
\* here, so flags.GetString fails and Options.Namespace stays empty
NewOptionsFlags == [Namespace |-> ""]

\* NewOptions(flags, namespace)
NewOptions(namespace) == [Namespace |-> namespace]

\* WrapCli: the namespace the client is bound to (cli.kubeNamespace)
WrapCli(kopts) ==
    IF kopts.Namespace # "default" THEN kopts.Namespace ELSE configNamespace

\* composeClient.Stacks(allNamespaces): the namespace the stack client lists
Stacks(allNamespaces, kubeNamespace) ==
    IF allNamespaces THEN NamespaceAll ELSE kubeNamespace

\* the stacks of the cluster a query of the given scope may find
KubeStacksIn(scope) ==
    {[name |-> n, services |-> StackServices[n], namespace |-> ns] :
        n \in StackNames,
        ns \in IF scope = NamespaceAll THEN Namespaces ELSE {scope}}

\* what the collaborators of getStacks may do: fail to build the client
\* (WrapCli, composeClient, Stacks), or answer stackSvc.List with an error or
\* with stacks of the scope, no stack twice
ListOutcomes(scope) ==
    {[err |-> e, stacks |-> <<>>] : e \in {"ConfigError", "Forbidden", "BackendError"}}
    \cup {[err |-> "nil", stacks |-> r] :
            r \in {q \in SeqsUpTo(KubeStacksIn(scope), MaxResp) : NoDup(q)}}

\* IsForbidden taking every error for a forbidden query
IsForbidden_anyError(kind) == kind # "nil"

\* apierrs.IsForbidden
IsForbidden(kind) == kind = "Forbidden"

\* ReturnsDirectly with the test of the error inverted
ReturnsDirectly_inverted(kind) == kind # "nil" /\ ~IsForbidden(kind)

\* ReturnsDirectly without the test for a forbidden query
ReturnsDirectly_onlyNil(kind) == kind = "nil"

\* getStacksWithAllNamespaces: the answer of the query over all namespaces is
\* returned as it is
ReturnsDirectly(kind) == kind = "nil" \/ ~IsForbidden(kind)

\* getStacks counting the stacks where it is to count the services of a stack
getStacks_countsStacks(allNamespaces, kopts, out) ==
    LET kubeNamespace == WrapCli(kopts)
        scope == Stacks(allNamespaces, kubeNamespace)
        formattedStacks ==
            [i \in 1..Len(out.stacks) |->
                [Name |-> out.stacks[i].name,
                 Services |-> Len(out.stacks),
                 Orchestrator |-> "Kubernetes",
                 Namespace |-> out.stacks[i].namespace]]
    IN  IF out.err = "ConfigError"
        THEN [stacks |-> <<>>, err |-> out.err,
              call |-> Call("wrapcli", allNamespaces, kopts.Namespace, scope,
                            out.err, <<>>)]
        ELSE IF out.err # "nil"
        THEN [stacks |-> <<>>, err |-> out.err,
              call |-> Call("list", allNamespaces, kopts.Namespace, scope,
                            out.err, <<>>)]
        ELSE [stacks |-> formattedStacks, err |-> "nil",
              call |-> Call("list", allNamespaces, kopts.Namespace, scope,
                            "nil", out.stacks)]

\* getStacks(dockerCli, opts, kopts) when its collaborators do as in out: the
\* call it makes, and the stacks and error kind it returns
getStacks(allNamespaces, kopts, out) ==
    LET kubeNamespace == WrapCli(kopts)
        scope == Stacks(allNamespaces, kubeNamespace)
        formattedStacks ==
            [i \in 1..Len(out.stacks) |->
                [Name |-> out.stacks[i].name,
                 Services |-> Len(out.stacks[i].services),
                 Orchestrator |-> "Kubernetes",
                 Namespace |-> out.stacks[i].namespace]]
    IN  IF out.err = "ConfigError"
        THEN [stacks |-> <<>>, err |-> out.err,
              call |-> Call("wrapcli", allNamespaces, kopts.Namespace, scope,
                            out.err, <<>>)]
        ELSE IF out.err # "nil"
        THEN [stacks |-> <<>>, err |-> out.err,
              call |-> Call("list", allNamespaces, kopts.Namespace, scope,
                            out.err, <<>>)]
        ELSE [stacks |-> formattedStacks, err |-> "nil",
              call |-> Call("list", allNamespaces, kopts.Namespace, scope,
                            "nil", out.stacks)]

\* the scope of the query getStacks makes (to choose the answers from)
ScopeOf(allNamespaces, kopts) == Stacks(allNamespaces, WrapCli(kopts))

\* getNamespaces listing "default" when no name is given
getNamespaces_defaultWhenEmpty ==
    IF flagNamespaces = <<>> THEN {"default"} ELSE Range(flagNamespaces)

\* getNamespaces(flags): the set of the names given with --namespace (the flag
\* is registered as a string slice, so flags.GetStringSlice does not fail)
getNamespaces == Range(flagNamespaces)

(***************************************************************************)
(* The discovery of the namespaces visible to the user.                    *)
(***************************************************************************)
\* daemon hosts: tcp://h:2376, unix:///var/run/docker.sock, and one that
\* url.Parse rejects
DaemonHosts ==
    {[parses |-> TRUE,
      url |-> [scheme |-> "tcp", host |-> "h:2376", path |-> ""]],
     [parses |-> TRUE,
      url |-> [scheme |-> "unix", host |-> "", path |-> "/var/run/docker.sock"]],
     [parses |-> FALSE, url |-> NoURL]}

\* dockerCli.ClientInfo().TLSOptions: nil, options tlsconfig.Client accepts,
\* options it rejects
TLSOptions == {"nil", "valid", "invalid"}

\* the client configurations a discovery may read
ClientCfgs ==
    {[tls |-> t, host |-> h.url, parses |-> h.parses] :
        t \in TLSOptions, h \in DaemonHosts}

\* the endpoint getUserVisibleNamespaces builds from the parsed daemon host
Endpoint(u) ==
    [u EXCEPT !.scheme = "https", !.path = "/kubernetesNamespaces"]

\* longest body that is not a namespace list
MaxText == 2

\* the body of a namespace list with the names in items, as the sequence of
\* its pieces
Encode(items) == <<"{items:[">> \o items \o <<"]}">>

\* bodies that are no JSON, character by character
Texts == SeqsUpTo({"d", "%"}, MaxText)

\* bodies of an HTTP answer: a namespace list, or a text json.Unmarshal
\* rejects
Bodies ==
    {Encode(it) : it \in SeqsUpTo(Namespaces, MaxDiscovered)} \cup Texts

\* what the HTTP exchange may do: httpClient.Get fails, the body cannot be
\* read, or a status and a body arrive
HTTPOutcomes ==
    {[get |-> "fail", read |-> FALSE, status |-> 0, body |-> NoBody]}
    \cup {[get |-> "ok", read |-> FALSE, status |-> st, body |-> NoBody] :
            st \in {200, 403}}
    \cup {[get |-> "ok", read |-> TRUE, status |-> st, body |-> b] :
            st \in {200, 403}, b \in Bodies}

StatusOK == 200

\* fmt.Errorf(f) without operands: the text of the error. "%%" gives "%", a
\* verb gives "%!verb(MISSING)", a "%" at the end "%!(NOVERB)", all else
\* stands as it is
RECURSIVE Sprintf(_)
Sprintf(f) ==
    IF f = <<>> THEN <<>>
    ELSE IF f[1] # "%" THEN <<f[1]>> \o Sprintf(Tail(f))
    ELSE IF Len(f) = 1 THEN <<"%!(NOVERB)">>
    ELSE IF f[2] = "%" THEN <<"%">> \o Sprintf(Tail(Tail(f)))
    ELSE <<"%!", f[2], "(MISSING)">> \o Sprintf(Tail(Tail(f)))

\* json.Unmarshal(body, &res): whether it decodes, and the names of res.Items
Unmarshal(body) ==
    IF /\ Len(body) >= 2
       /\ body[1] = "{items:["
       /\ body[Len(body)] = "]}"
    THEN [ok |-> TRUE, items |-> SubSeq(body, 2, Len(body) - 1)]
    ELSE [ok |-> FALSE, items |-> <<>>]

\* the handler getUserVisibleNamespaces passes to makeRequest: the error, its
\* text, and the names decoded
handler(resp) ==
    IF ~resp.read
    THEN [err |-> "ReadError", items |-> <<>>,
          msg |-> <<"received ", ToString(resp.status),
                    " status and unable to read response">>]
    ELSE IF resp.status # StatusOK
    THEN [err |-> "ProtocolError", items |-> <<>>, msg |-> Sprintf(resp.body)]
    ELSE IF ~Unmarshal(resp.body).ok
    THEN [err |-> "DecodeError", items |-> <<>>,
          msg |-> <<"unmarshal failed: ">> \o resp.body]
    ELSE [err |-> "nil", items |-> Unmarshal(resp.body).items, msg |-> <<>>]

\* makeRequest sending the request without TLS options
makeRequest_noTLSCheck(tlsOptions, endpoint, http) ==
    IF tlsOptions = "invalid"
    THEN [url |-> NoURL, err |-> "TLSConfigError", items |-> <<>>,
          msg |-> <<>>, resp |-> NoResp]
    ELSE IF http.get = "fail"
    THEN [url |-> endpoint, err |-> "TransportError", items |-> <<>>,
          msg |-> <<>>, resp |-> http]
    ELSE LET h == handler(http)
         IN  [url |-> endpoint, err |-> h.err, items |-> h.items,
              msg |-> h.msg, resp |-> http]

\* makeRequest(dockerCli, endpoint, handler) when the exchange does as in
\* http: the URL requested (NoURL when none is), the outcome, and the
\* response the handler was given
makeRequest(tlsOptions, endpoint, http) ==
    IF tlsOptions = "nil"
    THEN [url |-> NoURL, err |-> "MissingTLS", items |-> <<>>,
          msg |-> <<>>, resp |-> NoResp]
    ELSE IF tlsOptions = "invalid"
    THEN [url |-> NoURL, err |-> "TLSConfigError", items |-> <<>>,
          msg |-> <<>>, resp |-> NoResp]
    ELSE IF http.get = "fail"
    THEN [url |-> endpoint, err |-> "TransportError", items |-> <<>>,
          msg |-> <<>>, resp |-> http]
    ELSE LET h == handler(http)
         IN  [url |-> endpoint, err |-> h.err, items |-> h.items,
              msg |-> h.msg, resp |-> http]

\* getUserVisibleNamespaces(dockerCli), dockerCli configured as in cfg
getUserVisibleNamespaces(cfg, http) ==
    IF ~cfg.parses
    THEN [url |-> NoURL, err |-> "ParseError", items |-> <<>>,
          msg |-> <<>>, resp |-> NoResp]
    ELSE makeRequest(cfg.tls, Endpoint(cfg.host), http)

(***************************************************************************)
(* The invocation.                                                         *)
(***************************************************************************)
NotHanded == [called |-> FALSE, format |-> "", stacks |-> <<>>]

\* the value of pair when a single invocation is looked at
NoPair == [backend |-> <<>>, a |-> <<>>, b |-> <<>>]

Init ==
    /\ orchestrator \in {"swarm", "kubernetes", "all"}
    /\ flagChanged \in BOOLEAN
    /\ flagNamespaces \in IF flagChanged THEN SeqsUpTo(Namespaces, MaxFlagLen)
                                         ELSE {<<"default">>}
    /\ opts \in [Namespaces : {flagNamespaces}, AllNamespaces : BOOLEAN,
                 Format : Formats]
    /\ configNamespace \in {"default", "a"}
    /\ pc = "runList"
    /\ stacks = <<>>
    /\ wopts = opts
    /\ kstacks = <<>>
    /\ kerr = NoErr
    /\ nms = <<>>
    /\ mnms = {}
    /\ trace = <<>>
    /\ retErr = NoErr
    /\ handed = NotHanded
    /\ pair = NoPair

\* SwarmGetStacks going on to the cluster when the swarm listing fails
SwarmGetStacks_ignoresError ==
    /\ pc = "runList"
    /\ HasSwarm
    /\ \E out \in SwarmOutcomes :
        /\ trace' = Append(trace, Call("swarm", FALSE, "", "", out.err,
                                       out.recs))
        /\ stacks' = stacks \o out.recs
        /\ pc' = "kubernetes"
        /\ retErr' = retErr
    /\ UNCHANGED <<env, wopts, kstacks, kerr, nms, mnms, handed>>

\* runList: the swarm backend is listed first
SwarmGetStacks ==
    /\ pc = "runList"
    /\ HasSwarm
    /\ \E out \in SwarmOutcomes :
        /\ trace' = Append(trace, Call("swarm", FALSE, "", "", out.err,
                                       out.recs))
        /\ IF out.err # "nil"
           THEN /\ retErr' = Err(out.err, Len(trace) + 1)
                /\ pc' = "done"
                /\ stacks' = stacks
           ELSE /\ stacks' = stacks \o out.recs
                /\ pc' = "kubernetes"
                /\ retErr' = retErr
    /\ UNCHANGED <<env, wopts, kstacks, kerr, nms, mnms, handed>>

\* runList without a swarm backend
SkipSwarm ==
    /\ pc = "runList"
    /\ ~HasSwarm
    /\ pc' = "kubernetes"
    /\ UNCHANGED <<env, stacks, wopts, kstacks, kerr, nms, mnms, trace, retErr,
                   handed>>

\* runList without a kubernetes backend
SkipKubernetes ==
    /\ pc = "kubernetes"
    /\ ~HasKubernetes
    /\ pc' = "format"
    /\ UNCHANGED <<env, stacks, wopts, kstacks, kerr, nms, mnms, trace, retErr,
                   handed>>

\* GetStacks without the rule for the namespace flag left unset
GetStacksOpts_noDefaultRule == opts

\* GetStacks: the options it works with
GetStacksOpts ==
    IF HasAll /\ ~flagChanged THEN [opts EXCEPT !.AllNamespaces = TRUE]
    ELSE opts

\* ListAllNamespaces with GetStacks writing AllNamespaces into the options of
\* its caller
ListAllNamespaces_writesCallerOptions ==
    /\ pc = "kubernetes"
    /\ HasKubernetes
    /\ GetStacksOpts.AllNamespaces
    /\ wopts' = GetStacksOpts
    /\ opts' = GetStacksOpts
    /\ \E out \in ListOutcomes(ScopeOf(GetStacksOpts.AllNamespaces, NewOptionsFlags)) :
        LET r == getStacks(GetStacksOpts.AllNamespaces, NewOptionsFlags, out)
        IN  /\ trace' = Append(trace, r.call)
            /\ kstacks' = r.stacks
            /\ IF ReturnsDirectly(r.err) /\ r.err = "nil"
               THEN /\ stacks' = stacks \o r.stacks
                    /\ pc' = "format"
                    /\ UNCHANGED <<kerr, retErr>>
               ELSE IF ReturnsDirectly(r.err)
               THEN /\ retErr' = Err(r.err, Len(trace) + 1)
                    /\ pc' = "done"
                    /\ UNCHANGED <<kerr, stacks>>
               ELSE /\ kerr' = Err(r.err, Len(trace) + 1)
                    /\ pc' = "discover"
                    /\ UNCHANGED <<retErr, stacks>>
    /\ UNCHANGED <<orchestrator, flagNamespaces, flagChanged, configNamespace,
                   pair, nms, mnms, handed>>

\* GetStacks with AllNamespaces: getStacksWithAllNamespaces up to the answer
\* of the query over all namespaces
ListAllNamespaces ==
    /\ pc = "kubernetes"
    /\ HasKubernetes
    /\ GetStacksOpts.AllNamespaces
    /\ wopts' = GetStacksOpts
    /\ \E out \in ListOutcomes(ScopeOf(GetStacksOpts.AllNamespaces, NewOptionsFlags)) :
        LET r == getStacks(GetStacksOpts.AllNamespaces, NewOptionsFlags, out)
        IN  /\ trace' = Append(trace, r.call)
            /\ kstacks' = r.stacks
            /\ IF ReturnsDirectly(r.err) /\ r.err = "nil"
               THEN /\ stacks' = stacks \o r.stacks
                    /\ pc' = "format"
                    /\ UNCHANGED <<kerr, retErr>>
               ELSE IF ReturnsDirectly(r.err)
               THEN /\ retErr' = Err(r.err, Len(trace) + 1)
                    /\ pc' = "done"
                    /\ UNCHANGED <<kerr, stacks>>
               ELSE /\ kerr' = Err(r.err, Len(trace) + 1)
                    /\ pc' = "discover"
                    /\ UNCHANGED <<retErr, stacks>>
    /\ UNCHANGED <<env, nms, mnms, handed>>

\* Discover returning the error of the discovery
Discover_returnsDiscoveryError ==
    /\ pc = "discover"
    /\ \E cfg \in ClientCfgs, http \in HTTPOutcomes :
        LET d == getUserVisibleNamespaces(cfg, http)
        IN  /\ trace' = Append(trace, DiscoverCall(cfg, d))
            /\ IF d.err # "nil"
               THEN /\ retErr' = Err(d.err, Len(trace) + 1)
                    /\ pc' = "done"
                    /\ UNCHANGED <<wopts, nms>>
               ELSE /\ wopts' = [wopts EXCEPT !.AllNamespaces = FALSE]
                    /\ nms' = d.items
                    /\ pc' = "fallback"
                    /\ retErr' = retErr
    /\ UNCHANGED <<env, stacks, kstacks, kerr, mnms, handed>>

\* Discover listing the namespace "default" when the discovery fails
Discover_fallsBackToDefault ==
    /\ pc = "discover"
    /\ \E cfg \in ClientCfgs, http \in HTTPOutcomes :
        LET d == getUserVisibleNamespaces(cfg, http)
        IN  /\ trace' = Append(trace, DiscoverCall(cfg, d))
            /\ wopts' = [wopts EXCEPT !.AllNamespaces = FALSE]
            /\ nms' = IF d.err # "nil" THEN <<"default">> ELSE d.items
            /\ pc' = "fallback"
            /\ retErr' = retErr
    /\ UNCHANGED <<env, stacks, kstacks, kerr, mnms, handed>>

\* getStacksWithAllNamespaces after a forbidden query: the visible namespaces
\* are asked for
Discover ==
    /\ pc = "discover"
    /\ \E cfg \in ClientCfgs, http \in HTTPOutcomes :
        LET d == getUserVisibleNamespaces(cfg, http)
        IN  /\ trace' = Append(trace, DiscoverCall(cfg, d))
            /\ IF d.err # "nil"
               THEN /\ retErr' = kerr
                    /\ pc' = "done"
                    /\ UNCHANGED <<wopts, nms>>
               ELSE /\ wopts' = [wopts EXCEPT !.AllNamespaces = FALSE]
                    /\ nms' = d.items
                    /\ pc' = "fallback"
                    /\ retErr' = retErr
    /\ UNCHANGED <<env, stacks, kstacks, kerr, mnms, handed>>

\* FallbackQuery going on with the next namespace when a query fails
FallbackQuery_keepsGoing ==
    /\ pc = "fallback"
    /\ nms # <<>>
    /\ \E out \in ListOutcomes(ScopeOf(wopts.AllNamespaces, NewOptions(Head(nms)))) :
        LET r == getStacks(wopts.AllNamespaces, NewOptions(Head(nms)), out)
        IN  /\ trace' = Append(trace, r.call)
            /\ kstacks' = kstacks \o r.stacks
            /\ nms' = Tail(nms)
            /\ UNCHANGED <<retErr, pc>>
    /\ UNCHANGED <<env, stacks, wopts, kerr, mnms, handed>>

\* one turn of the loop over the discovered namespaces
FallbackQuery ==
    /\ pc = "fallback"
    /\ nms # <<>>
    /\ \E out \in ListOutcomes(ScopeOf(wopts.AllNamespaces, NewOptions(Head(nms)))) :
        LET r == getStacks(wopts.AllNamespaces, NewOptions(Head(nms)), out)
        IN  /\ trace' = Append(trace, r.call)
            /\ IF r.err # "nil"
               THEN /\ retErr' = Err(r.err, Len(trace) + 1)
                    /\ pc' = "done"
                    /\ UNCHANGED <<kstacks, nms>>
               ELSE /\ kstacks' = kstacks \o r.stacks
                    /\ nms' = Tail(nms)
                    /\ UNCHANGED <<retErr, pc>>
    /\ UNCHANGED <<env, stacks, wopts, kerr, mnms, handed>>

\* the loop over the discovered namespaces is over: the stacks go to runList
FallbackReturn ==
    /\ pc = "fallback"
    /\ nms = <<>>
    /\ stacks' = stacks \o kstacks
    /\ pc' = "format"
    /\ UNCHANGED <<env, wopts, kstacks, kerr, nms, mnms, trace, retErr, handed>>

\* GetStacks without AllNamespaces: getStacksWithNamespaces up to its loop
ExplicitStart ==
    /\ pc = "kubernetes"
    /\ HasKubernetes
    /\ ~GetStacksOpts.AllNamespaces
    /\ wopts' = GetStacksOpts
    /\ mnms' = getNamespaces
    /\ kstacks' = <<>>
    /\ pc' = "explicit"
    /\ UNCHANGED <<env, stacks, kerr, nms, trace, retErr, handed>>

\* ExplicitQuery going on with the next namespace when a query fails
ExplicitQuery_skipsFailures ==
    /\ pc = "explicit"
    /\ \E nm \in mnms :
        \E out \in ListOutcomes(ScopeOf(wopts.AllNamespaces, NewOptions(nm))) :
            LET r == getStacks(wopts.AllNamespaces, NewOptions(nm), out)
            IN  /\ trace' = Append(trace, r.call)
                /\ kstacks' = kstacks \o r.stacks
                /\ mnms' = mnms \ {nm}
                /\ UNCHANGED <<retErr, pc>>
    /\ UNCHANGED <<env, stacks, wopts, kerr, nms, handed>>

\* one turn of the loop over the map of explicit namespaces; the order in
\* which a map is ranged over is not defined
ExplicitQuery ==
    /\ pc = "explicit"
    /\ \E nm \in mnms :
        \E out \in ListOutcomes(ScopeOf(wopts.AllNamespaces, NewOptions(nm))) :
            LET r == getStacks(wopts.AllNamespaces, NewOptions(nm), out)
            IN  /\ trace' = Append(trace, r.call)
                /\ IF r.err # "nil"
                   THEN /\ retErr' = Err(r.err, Len(trace) + 1)
                        /\ pc' = "done"
                        /\ UNCHANGED <<kstacks, mnms>>
                   ELSE /\ kstacks' = kstacks \o r.stacks
                        /\ mnms' = mnms \ {nm}
                        /\ UNCHANGED <<retErr, pc>>
    /\ UNCHANGED <<env, stacks, wopts, kerr, nms, handed>>

\* the loop over the explicit namespaces is over: the stacks go to runList
ExplicitReturn ==
    /\ pc = "explicit"
    /\ mnms = {}
    /\ stacks' = stacks \o kstacks
    /\ pc' = "format"
    /\ UNCHANGED <<env, wopts, kstacks, kerr, nms, mnms, trace, retErr, handed>>

\* FormatTemplate with the table of the cluster put before the format asked for
FormatTemplate_tableFirst ==
    IF HasKubernetes THEN "KubernetesStackTableFormat"
    ELSE IF opts.Format # "" THEN opts.Format
    ELSE "SwarmStackTableFormat"

\* format: the template chosen
FormatTemplate ==
    IF opts.Format # "" THEN opts.Format
    ELSE IF HasKubernetes THEN "KubernetesStackTableFormat"
    ELSE "SwarmStackTableFormat"

\* format: the stacks are sorted and written
Format ==
    /\ pc = "format"
    /\ \E sorted \in SortSlice(stacks) :
        \E werr \in {"nil", "FormatError"} :
            /\ stacks' = sorted
            /\ handed' = [called |-> TRUE, format |-> FormatTemplate,
                          stacks |-> sorted]
            /\ trace' = Append(trace, Call("format", FALSE, "", "", werr,
                                           sorted))
            /\ retErr' = IF werr = "nil" THEN NoErr
                         ELSE Err(werr, Len(trace) + 1)
    /\ pc' = "done"
    /\ UNCHANGED <<env, wopts, kstacks, kerr, nms, mnms>>

Next ==
    \/ SwarmGetStacks
    \/ SkipSwarm
    \/ SkipKubernetes
    \/ ListAllNamespaces
    \/ Discover
    \/ FallbackQuery
    \/ FallbackReturn
    \/ ExplicitStart
    \/ ExplicitQuery
    \/ ExplicitReturn
    \/ Format

Spec == Init /\ [][Next]_vars

(***************************************************************************)
(* format on its own: runList with the swarm backend alone, as it comes to *)
(* format with the stacks the swarm backend answered.                      *)
(***************************************************************************)
\* most stacks sorted
MaxSort == 3

\* names to sort: "s1", "s2", "s10", "s02", "t1", "2s"
SortNames ==
    {<<115, 49>>, <<115, 50>>, <<115, 49, 48>>, <<115, 48, 50>>, <<116, 49>>,
     <<50, 115>>}

InitSort ==
    /\ orchestrator = "swarm"
    /\ flagChanged = FALSE
    /\ flagNamespaces = <<"default">>
    /\ opts \in [Namespaces : {flagNamespaces}, AllNamespaces : {FALSE},
                 Format : Formats]
    /\ configNamespace = "default"
    /\ pc = "format"
    /\ stacks \in {q \in SeqsUpTo({[Name |-> n, Services |-> 0,
                                     Orchestrator |-> "Swarm",
                                     Namespace |-> ""] : n \in SortNames},
                                   MaxSort) : NoDup(q)}
    /\ wopts = opts
    /\ kstacks = <<>>
    /\ kerr = NoErr
    /\ nms = <<>>
    /\ mnms = {}
    /\ trace = <<Call("swarm", FALSE, "", "", "nil", stacks)>>
    /\ retErr = NoErr
    /\ handed = NotHanded
    /\ pair = NoPair

NextSort == Format

SpecSort == InitSort /\ [][NextSort]_vars

(***************************************************************************)
(* Two invocations of getStacksWithNamespaces with the same flags, against *)
(* a cluster that gives both the same answers.                             *)
(***************************************************************************)
\* the clusters: what a query scoped to each namespace is answered
Backends ==
    {f \in [Namespaces -> UNION {ListOutcomes(n) : n \in Namespaces}] :
        \A n \in Namespaces : f[n] \in ListOutcomes(n)}

\* getStacksWithNamespaces as it enters its loop
RunStart ==
    [pc |-> "explicit", mnms |-> getNamespaces, kstacks |-> <<>>,
     trace |-> <<>>, retErr |-> NoErr]

\* one turn of the loop of getStacksWithNamespaces for the namespace nm, in
\* the invocation r
ExplicitTurn(r, nm, out) ==
    LET g == getStacks(wopts.AllNamespaces, NewOptions(nm), out)
    IN  IF g.err # "nil"
        THEN [r EXCEPT !.trace = Append(@, g.call),
                       !.retErr = Err(g.err, Len(r.trace) + 1),
                       !.pc = "done"]
        ELSE [r EXCEPT !.trace = Append(@, g.call),
                       !.kstacks = @ \o g.stacks,
                       !.mnms = @ \ {nm}]

InitPair ==
    /\ orchestrator = "kubernetes"
    /\ flagChanged = TRUE
    /\ flagNamespaces \in SeqsUpTo(Namespaces, MaxFlagLen)
    /\ opts = [Namespaces |-> flagNamespaces, AllNamespaces |-> FALSE,
               Format |-> ""]
    /\ configNamespace \in {"default", "a"}
    /\ pc = "explicit"
    /\ stacks = <<>>
    /\ wopts = opts
    /\ kstacks = <<>>
    /\ kerr = NoErr
    /\ nms = <<>>
    /\ mnms = getNamespaces
    /\ trace = <<>>
    /\ retErr = NoErr
    /\ handed = NotHanded
    /\ \E f \in Backends : pair = [backend |-> f, a |-> RunStart, b |-> RunStart]

\* a turn of the loop in the invocation x of the pair; the map is ranged over
\* in an order that is not defined
PairQuery(x) ==
    /\ pair[x].pc = "explicit"
    /\ \E nm \in pair[x].mnms :
        pair' = [pair EXCEPT ![x] =
                    ExplicitTurn(pair[x], nm,
                        pair.backend[ScopeOf(wopts.AllNamespaces, NewOptions(nm))])]
    /\ UNCHANGED <<orchestrator, flagNamespaces, flagChanged, opts,
                   configNamespace, pc, stacks, wopts, kstacks, kerr, nms,
                   mnms, trace, retErr, handed>>

\* the loop of the invocation x of the pair is over
PairReturn(x) ==
    /\ pair[x].pc = "explicit"
    /\ pair[x].mnms = {}
    /\ pair' = [pair EXCEPT ![x].pc = "returned"]
    /\ UNCHANGED <<orchestrator, flagNamespaces, flagChanged, opts,
                   configNamespace, pc, stacks, wopts, kstacks, kerr, nms,
                   mnms, trace, retErr, handed>>

PairQueryA == PairQuery("a")

PairQueryB == PairQuery("b")

PairReturnA == PairReturn("a")

PairReturnB == PairReturn("b")

NextPair ==
    \/ PairQueryA
    \/ PairQueryB
    \/ PairReturnA
    \/ PairReturnB

SpecPair == InitPair /\ [][NextPair]_vars

(***************************************************************************)
(* What the properties speak of.                                           *)
(***************************************************************************)
IsKubeCall(c) == c.op \in {"list", "wrapcli"}

\* positions in trace of the calls of getStacks
KubeCalls == {i \in DOMAIN trace : IsKubeCall(trace[i])}

\* positions in trace of the calls of getUserVisibleNamespaces
DiscoverCalls == {i \in DOMAIN trace : trace[i].op = "discover"}

\* the record a stack of the cluster is to be listed as
ToStack(k) ==
    [Name |-> k.name, Services |-> Len(k.services), Orchestrator |-> "Kubernetes",
     Namespace |-> k.namespace]

\* the records the stacks answered to the calls in calls are to be listed as
RECURSIVE Merged(_)
Merged(calls) ==
    IF calls = <<>> THEN <<>>
    ELSE [i \in 1..Len(calls[1].recs) |-> ToStack(calls[1].recs[i])]
         \o Merged(Tail(calls))

\* the calls of getStacks after position d of trace
KubeCallsAfter(d) == SelectSeq(SubSeq(trace, d + 1, Len(trace)), IsKubeCall)

\* AllNamespaces of the request GetStacks works with, by the rule
EffectiveAllNamespaces ==
    IF HasAll /\ ~flagChanged THEN TRUE ELSE opts.AllNamespaces

\* the kubernetes functions have returned their stacks to runList
KubernetesReturned == pc = "format" \/ handed.called

\* C1: after a forbidden query over all namespaces and a discovery that
\* answered the namespaces N, the queries made are, in order, one query scoped
\* to each namespace of N and no other, and the stacks returned are those the
\* queries answered, in that order.
C1_FallbackListsEachDiscoveredNamespace ==
    \A d \in DiscoverCalls :
        trace[d].err = "nil" =>
            LET N == trace[d].items
                q == KubeCallsAfter(d)
            IN  /\ Len(q) <= Len(N)
                /\ \A k \in DOMAIN q : ~q[k].all /\ q[k].ns = N[k]
                /\ KubernetesReturned =>
                    /\ Len(q) = Len(N)
                    /\ \A k \in DOMAIN q : q[k].op = "list"
                    /\ kstacks = Merged(q)

\* C2: when the query over all namespaces succeeds, it is the only query made
\* to the cluster, it is not scoped to a namespace, no discovery is made, and
\* the stacks returned are exactly those it answered.
C2_AllNamespacesIsOneQuery ==
    \A i \in KubeCalls :
        (trace[i].op = "list" /\ trace[i].all /\ trace[i].err = "nil") =>
            /\ KubeCalls = {i}
            /\ trace[i].ns = NamespaceAll
            /\ DiscoverCalls = {}
            /\ KubernetesReturned
            /\ kstacks = Merged(<<trace[i]>>)

\* the query over all namespaces answered a stack and runList is over
C2_Witness ==
    /\ pc = "done"
    /\ handed.called
    /\ \E i \in KubeCalls :
        trace[i].op = "list" /\ trace[i].all /\ trace[i].recs # <<>>

\* C3: when the query over all namespaces fails with an error that is not
\* Forbidden, runList returns that error; no stacks are returned, no discovery
\* and no query scoped to a namespace is made.
C3_OtherErrorFailsFast ==
    \A i \in KubeCalls :
        (trace[i].all /\ trace[i].err \notin {"nil", "Forbidden"}) =>
            /\ i = Len(trace)
            /\ pc = "done"
            /\ retErr = Err(trace[i].err, i)
            /\ KubeCalls = {i}
            /\ DiscoverCalls = {}
            /\ ~handed.called

\* the query over all namespaces failed with a backend error
C3_Witness ==
    /\ pc = "done"
    /\ \E i \in KubeCalls :
        trace[i].op = "list" /\ trace[i].all /\ trace[i].err = "BackendError"

\* the stacks the swarm backend answered
SwarmRecs ==
    IF trace # <<>> /\ trace[1].op = "swarm" THEN trace[1].recs ELSE <<>>

\* the queries the cluster answered without error
AnsweredQueries ==
    SelectSeq(trace, LAMBDA c : c.op = "list" /\ c.err = "nil")

\* the namespaces asked for by a sequence of calls
Requested(calls) == [k \in DOMAIN calls |-> calls[k].req]

\* s and t hold the same elements the same number of times
Count(x, s) == Cardinality({i \in DOMAIN s : s[i] = x})

IsPerm(s, t) ==
    /\ Len(s) = Len(t)
    /\ \A x \in Range(s) \cup Range(t) : Count(x, s) = Count(x, t)

\* the queries planned have all been answered
AllPlannedAnswered ==
    LET q == AnsweredQueries
    IN  IF ~HasKubernetes THEN q = <<>>
        ELSE IF ~EffectiveAllNamespaces
        THEN /\ Range(Requested(q)) = Range(flagNamespaces)
             /\ Len(q) = Cardinality(Range(flagNamespaces))
             /\ \A k \in DOMAIN q : ~q[k].all
        ELSE IF DiscoverCalls = {}
        THEN Len(q) = 1 /\ q[1].all
        ELSE \E d \in DiscoverCalls :
                /\ Requested(q) = trace[d].items
                /\ \A k \in DOMAIN q : ~q[k].all

\* C4: runList ends either with an error and nothing handed to the formatter,
\* or with the formatter handed the stacks of the swarm backend and of every
\* query planned; a query scoped to a namespace that fails is the last call
\* made, its error is what runList returns, and nothing is handed over.
C4_NoPartialSuccess ==
    /\ handed.called =>
        /\ AllPlannedAnswered
        /\ IsPerm(handed.stacks, SwarmRecs \o Merged(AnsweredQueries))
    /\ \A i \in KubeCalls :
        (~trace[i].all /\ trace[i].err # "nil") =>
            /\ i = Len(trace)
            /\ pc = "done"
            /\ retErr = Err(trace[i].err, i)
            /\ ~handed.called
    /\ pc = "done" => (handed.called \/ retErr # NoErr)

\* the second query of the loop over the explicit namespaces failed after the
\* swarm backend and the first query had answered stacks
C4_Witness ==
    /\ pc = "done"
    /\ ~handed.called
    /\ SwarmRecs # <<>>
    /\ DiscoverCalls = {}
    /\ \E i, j \in KubeCalls :
        /\ i < j
        /\ ~trace[i].all /\ trace[i].recs # <<>>
        /\ ~trace[j].all /\ trace[j].err = "BackendError"

\* C5: when the discovery fails, it is the last call made: runList returns an
\* error, no stacks are handed over, no query scoped to a namespace is made
\* and the discovery is not made again.
C5_DiscoveryFailureIsFatal ==
    \A d \in DiscoverCalls :
        trace[d].err # "nil" =>
            /\ d = Len(trace)
            /\ pc = "done"
            /\ retErr # NoErr
            /\ ~handed.called
            /\ DiscoverCalls = {d}
            /\ \A i \in KubeCalls : trace[i].all

\* the discovery failed and runList is over
C5_Witness ==
    /\ pc = "done"
    /\ \E d \in DiscoverCalls :
        trace[d].err \in {"MissingTLS", "TransportError", "ProtocolError",
                          "DecodeError"}

\* C6 as stated: the error runList returns is the error of the last call
\* made, the one that ended the run; after a failed discovery it is the
\* error of the discovery.
C6_ErrorOfAbortingStep ==
    (pc = "done" /\ retErr # NoErr) =>
        retErr = Err(trace[Len(trace)].err, Len(trace))

\* a forbidden query over all namespaces whose error is set aside for the
\* discovery that follows
IsDeniedListAll(i) ==
    /\ trace[i].op = "list"
    /\ trace[i].all
    /\ trace[i].err = "Forbidden"
    /\ \/ i = Len(trace) /\ pc = "discover"
       \/ i < Len(trace) /\ trace[i + 1].op = "discover"

\* C6 amended: the error runList returns is the error of the last call made,
\* except after a failed discovery, where it is the Forbidden error of the
\* query over all namespaces; no call that failed is followed by another,
\* but the forbidden query by the discovery.
C6_ErrorReturned ==
    /\ (pc = "done" /\ retErr # NoErr) =>
        LET n == Len(trace)
        IN  IF trace[n].op = "discover"
            THEN n > 1 /\ IsDeniedListAll(n - 1) /\ retErr = Err("Forbidden", n - 1)
            ELSE retErr = Err(trace[n].err, n)
    /\ \A i \in DOMAIN trace :
        trace[i].err # "nil" =>
            \/ i = Len(trace) /\ pc = "done" /\ retErr # NoErr
            \/ IsDeniedListAll(i)

\* the discovery failed for want of TLS options and runList returned the
\* Forbidden error
C6_Witness ==
    /\ pc = "done"
    /\ retErr.kind = "Forbidden"
    /\ trace[Len(trace)].op = "discover"
    /\ trace[Len(trace)].err = "MissingTLS"

\* C7: a discovery comes right after a forbidden query over all namespaces
\* and at most once; none is made when the namespaces are explicit; a query
\* scoped to a namespace that fails, with Forbidden or any other error, is
\* the last call made and its error is returned.
C7_DiscoveryOnlyAfterDeniedListAll ==
    /\ \A d \in DiscoverCalls :
        /\ d > 1
        /\ trace[d - 1].op = "list"
        /\ trace[d - 1].all
        /\ trace[d - 1].err = "Forbidden"
    /\ Cardinality(DiscoverCalls) <= 1
    /\ (HasKubernetes /\ ~EffectiveAllNamespaces) => DiscoverCalls = {}
    /\ \A i \in KubeCalls :
        (~trace[i].all /\ trace[i].err # "nil") =>
            /\ i = Len(trace)
            /\ pc = "done"
            /\ retErr = Err(trace[i].err, i)

\* a query of the fallback loop was forbidden and runList is over
C7_Witness ==
    /\ pc = "done"
    /\ Cardinality(DiscoverCalls) = 1
    /\ ~trace[Len(trace)].all
    /\ trace[Len(trace)].op = "list"
    /\ trace[Len(trace)].err = "Forbidden"

\* C8: a discovery made without TLS options fails before any request is sent,
\* with the error for the missing options when the daemon host parses; a
\* request that is sent was built with valid TLS options and asks for
\* https://<daemon host>/kubernetesNamespaces.
C8_DiscoveryOnlyOverTLS ==
    \A d \in DiscoverCalls :
        /\ trace[d].cfg.tls = "nil" =>
            /\ trace[d].url = NoURL
            /\ trace[d].err # "nil"
            /\ trace[d].cfg.parses => trace[d].err = "MissingTLS"
        /\ trace[d].url # NoURL =>
            /\ trace[d].cfg.tls = "valid"
            /\ trace[d].url.scheme = "https"
            /\ trace[d].url.path = "/kubernetesNamespaces"
            /\ trace[d].url.host = trace[d].cfg.host.host

\* a discovery was made without TLS options for a daemon host that parses
C8_Witness ==
    \E d \in DiscoverCalls :
        /\ trace[d].cfg.tls = "nil"
        /\ trace[d].cfg.parses
        /\ trace[d].cfg.host.scheme = "tcp"

\* GetStacks has chosen between its two ways
GetStacksEntered == pc \in {"discover", "fallback", "explicit"} \/ KubeCalls # {}

\* C9: once GetStacks has chosen its way, the way is that of all namespaces
\* exactly when both backends are there and --namespace was not given, or
\* else when the caller asked for all namespaces.
C9_DefaultToAllNamespaces ==
    GetStacksEntered =>
        /\ pc = "explicit" => (~EffectiveAllNamespaces /\ ~wopts.AllNamespaces)
        /\ pc = "discover" => (EffectiveAllNamespaces /\ wopts.AllNamespaces)
        /\ pc = "fallback" => EffectiveAllNamespaces
        /\ \A i \in KubeCalls :
            (\A j \in KubeCalls : i <= j) =>
                trace[i].all = EffectiveAllNamespaces

\* both backends, no --namespace, no --all-namespaces: the namespace flag holds
\* "default" and the query made is over all namespaces
C9_Witness ==
    /\ orchestrator = "all"
    /\ ~flagChanged
    /\ ~opts.AllNamespaces
    /\ flagNamespaces = <<"default">>
    /\ \E i \in KubeCalls : trace[i].op = "list" /\ trace[i].all

\* the request GetStacks works with names no namespace at all
EmptySelection ==
    HasKubernetes /\ ~EffectiveAllNamespaces /\ flagNamespaces = <<>>

\* C10: with no namespace named and AllNamespaces false, no query and no
\* discovery is made, no stacks and no error come back from the cluster side,
\* and runList goes on to format the stacks of the swarm backend.
C10_EmptySelection ==
    EmptySelection =>
        /\ KubeCalls = {}
        /\ DiscoverCalls = {}
        /\ kstacks = <<>>
        /\ pc = "format" => (retErr = NoErr /\ stacks = SwarmRecs)
        /\ pc = "done" =>
            \/ handed.called /\ IsPerm(handed.stacks, SwarmRecs)
            \/ trace[Len(trace)].op = "swarm"

\* getStacksWithNamespaces has returned for an empty selection
C10_Witness ==
    /\ EmptySelection
    /\ pc = "format"

\* the namespaces the cluster was asked to list by the queries made so far
QueriedNamespaces == [k \in DOMAIN KubeCallsAfter(0) |-> KubeCallsAfter(0)[k].ns]

\* C11: with explicit namespaces, no namespace is queried twice, no namespace
\* is queried that was not named with --namespace, and when the loop is over
\* every namespace named has been queried.
C11_ExplicitNamespacesQueriedOnce ==
    (HasKubernetes /\ ~EffectiveAllNamespaces) =>
        /\ NoDup(QueriedNamespaces)
        /\ Range(QueriedNamespaces) \subseteq Range(flagNamespaces)
        /\ KubernetesReturned => Range(QueriedNamespaces) = Range(flagNamespaces)

\* C12: two invocations with the same namespace flags, answered alike by the
\* cluster, make the same queries in the same order, and when both are over
\* they have made the same queries and return the same error.
C12_SameQueryOrder ==
    /\ \A k \in DOMAIN pair.a.trace \cap DOMAIN pair.b.trace :
        pair.a.trace[k] = pair.b.trace[k]
    /\ (pair.a.pc # "explicit" /\ pair.b.pc # "explicit") =>
        /\ pair.a.trace = pair.b.trace
        /\ pair.a.retErr = pair.b.retErr

\* what tells one listed stack from another
StackKey(x) == <<x.Orchestrator, x.Namespace, x.Name>>

\* C13: no backend answer holding a stack twice, the list handed to the
\* formatter holds no two entries of the same orchestrator, namespace and
\* name.
C13_AtMostOneEntryPerStack ==
    handed.called =>
        NoDup([i \in DOMAIN handed.stacks |-> StackKey(handed.stacks[i])])

\* the stacks of the cluster answered to the calls in calls, one after another
RECURSIVE Answered(_)
Answered(calls) ==
    IF calls = <<>> THEN <<>> ELSE calls[1].recs \o Answered(Tail(calls))

\* C14: with both backends and every query answered, each record handed to
\* the formatter is there as many times as the swarm backend answered it plus
\* as many times as the cluster answered a stack of that name, namespace and
\* number of services, which is then tagged Kubernetes; nothing else is there.
C14_MergeAcrossBackends ==
    (HasAll /\ handed.called) =>
        LET raw == Answered(AnsweredQueries)
            fromCluster(x) ==
                {i \in DOMAIN raw :
                    /\ x.Orchestrator = "Kubernetes"
                    /\ x.Name = raw[i].name
                    /\ x.Namespace = raw[i].namespace
                    /\ x.Services = Len(raw[i].services)}
        IN  /\ Len(handed.stacks) = Len(SwarmRecs) + Len(raw)
            /\ \A x \in Range(handed.stacks) \cup Range(SwarmRecs) :
                Count(x, handed.stacks)
                    = Count(x, SwarmRecs) + Cardinality(fromCluster(x))
            /\ \A i \in DOMAIN raw : \E x \in Range(handed.stacks) :
                i \in fromCluster(x)

\* both backends answered a stack with services and the list was handed over
C14_Witness ==
    /\ HasAll
    /\ handed.called
    /\ \E x \in Range(SwarmRecs) : x.Services = 2
    /\ \E k \in Range(Answered(AnsweredQueries)) : Len(k.services) = 2

\* the number a run of digits stands for
RECURSIVE DigitsValue(_)
DigitsValue(ds) ==
    IF ds = <<>> THEN 0
    ELSE 10 * DigitsValue(SubSeq(ds, 1, Len(ds) - 1)) + (ds[Len(ds)] - 48)

\* the end of the run of digits of name that begins at i
RECURSIVE RunEnd(_, _)
RunEnd(name, i) ==
    IF i < Len(name) /\ name[i + 1] \in 48..57 THEN RunEnd(name, i + 1) ELSE i

\* a name from position i on, cut in pieces: <<0, v>> for a run of digits of
\* value v, <<1, b>> for any other byte b
RECURSIVE Pieces(_, _)
Pieces(name, i) ==
    IF i > Len(name) THEN <<>>
    ELSE IF name[i] \in 48..57
    THEN <<<<0, DigitsValue(SubSeq(name, i, RunEnd(name, i)))>>>>
         \o Pieces(name, RunEnd(name, i) + 1)
    ELSE <<<<1, name[i]>>>> \o Pieces(name, i + 1)

\* p comes before q, piece by piece: a number before a byte, numbers by value,
\* bytes by code, the shorter first
RECURSIVE PiecesBefore(_, _)
PiecesBefore(p, q) ==
    IF q = <<>> THEN FALSE
    ELSE IF p = <<>> THEN TRUE
    ELSE IF p[1] = q[1] THEN PiecesBefore(Tail(p), Tail(q))
    ELSE IF p[1][1] # q[1][1] THEN p[1][1] < q[1][1]
    ELSE p[1][2] < q[1][2]

Named(s, n) == SelectSeq(s, LAMBDA x : x.Name = n)

\* C16: format hands over the records of one name in the order they had in
\* the merged list.
C16_SortIsStable ==
    [][(pc = "format" /\ pc' = "done") =>
        \A n \in {stacks[i].Name : i \in DOMAIN stacks} :
            Named(handed'.stacks, n) = Named(stacks, n)]_vars

\* C17: the template handed to the formatter is the format asked for when one
\* is; if none is, the table of the cluster when the cluster backend is
\* there, else the table of swarm; whatever was listed and whatever the
\* namespace options.
C17_FormatSelection ==
    handed.called =>
        handed.format =
            CASE opts.Format # "" -> opts.Format
              [] opts.Format = "" /\ orchestrator \in {"kubernetes", "all"}
                    -> "KubernetesStackTableFormat"
              [] opts.Format = "" /\ orchestrator = "swarm"
                    -> "SwarmStackTableFormat"

\* a format was asked for with the cluster backend there, and stacks listed
C17_Witness ==
    /\ handed.called
    /\ opts.Format = "custom"
    /\ orchestrator = "all"
    /\ handed.stacks # <<>>

\* positions in trace of the calls of swarm.GetStacks
SwarmCalls == {i \in DOMAIN trace : trace[i].op = "swarm"}

\* positions in trace of the calls of the formatter
FormatCalls == {i \in DOMAIN trace : trace[i].op = "format"}

\* C19: with the swarm backend there, swarm is listed once, before any query
\* to the cluster and any discovery; when that listing fails nothing else is
\* called, the formatter neither, and its error is the one returned. A
\* backend that is not there is never called.
C19_SwarmFirstAndShortCircuit ==
    /\ SwarmCalls \subseteq {1}
    /\ (orchestrator \in {"swarm", "all"} /\ pc # "runList") => SwarmCalls = {1}
    /\ orchestrator = "kubernetes" => SwarmCalls = {}
    /\ orchestrator = "swarm" => KubeCalls = {} /\ DiscoverCalls = {}
    /\ (SwarmCalls = {1} /\ trace[1].err # "nil") =>
        /\ Len(trace) = 1
        /\ pc = "done"
        /\ retErr = Err(trace[1].err, 1)
        /\ ~handed.called

\* the swarm listing has failed with the cluster backend there too
C19_Witness ==
    /\ orchestrator = "all"
    /\ SwarmCalls = {1}
    /\ trace[1].err # "nil"
    /\ pc = "done"

\* the error of the call at position i of trace was recovered from: it is the
\* query over all namespaces that was forbidden, and the discovery after it
\* answered
Recovered(i) ==
    /\ trace[i].op = "list"
    /\ trace[i].all
    /\ trace[i].err = "Forbidden"
    /\ i + 1 \in DiscoverCalls
    /\ trace[i + 1].err = "nil"

\* s is in the order of NaturalLess on the names
IsSorted(s) ==
    \A i, j \in DOMAIN s : i < j => ~NaturalLess(s[j].Name, s[i].Name)

\* C20: the stacks are sorted and handed to the formatter at most once, as the
\* last call of the run, sorted; no call before it has failed, but for a
\* forbidden query over all namespaces that the discovery made up for.
C20_SortThenFormatOnceOnSuccess ==
    /\ Cardinality(FormatCalls) <= 1
    /\ handed.called <=> FormatCalls # {}
    /\ \A f \in FormatCalls :
        /\ f = Len(trace)
        /\ pc = "done"
        /\ handed.stacks = trace[f].recs
        /\ IsSorted(handed.stacks)
        /\ orchestrator \in {"swarm", "all"} => SwarmCalls = {1}
        /\ \A i \in 1..(f - 1) : trace[i].err = "nil" \/ Recovered(i)
    /\ (\E i \in DOMAIN trace :
            trace[i].op # "format" /\ trace[i].err # "nil" /\ ~Recovered(i))
        => ~handed.called

\* the formatter was handed the stacks of a run that recovered from a
\* forbidden query and listed two namespaces
C20_Witness ==
    /\ handed.called
    /\ \E i \in DOMAIN trace : Recovered(i)
    /\ Len(handed.stacks) >= 2
    /\ Len(trace) >= 5

\* the body is a well-formed list of namespaces
IsNamespaceList(body) ==
    \E it \in SeqsUpTo(Namespaces, MaxDiscovered) : body = Encode(it)

\* the names in the items of a body that is a list of namespaces, in order
ItemsOf(body) ==
    CHOOSE it \in SeqsUpTo(Namespaces, MaxDiscovered) : body = Encode(it)

\* C18: a discovery that got a response and read its body fails with a
\* ProtocolError whose text is the body when the status is not OK, whatever
\* the body; fails with a DecodeError when the status is OK and the body is
\* no list of namespaces; and else returns the names of the items in order.
C18_ResponseClassification ==
    \A d \in DiscoverCalls :
        LET c == trace[d]
        IN  (c.resp.get = "ok" /\ c.resp.read) =>
                IF c.resp.status # 200
                THEN c.err = "ProtocolError" /\ c.msg = c.resp.body
                ELSE IF ~IsNamespaceList(c.resp.body)
                THEN c.err = "DecodeError"
                ELSE c.err = "nil" /\ c.items = ItemsOf(c.resp.body)

\* C21: no step of a run changes the options held by the caller of runList,
\* neither the namespaces, nor AllNamespaces, nor the format; the options the
\* kubernetes functions work with are a copy.
C21_CallerOptionsUnchanged ==
    [][/\ opts' = opts
       /\ opts.Namespaces = flagNamespaces]_vars

\* a run is over in which AllNamespaces was forced by the default rule and then
\* cleared for the loop over the discovered namespaces, the caller asking for
\* neither
C21_Witness ==
    /\ pc = "done"
    /\ orchestrator = "all"
    /\ ~flagChanged
    /\ ~opts.AllNamespaces
    /\ DiscoverCalls # {}
    /\ ~wopts.AllNamespaces
    /\ \E i \in KubeCalls : trace[i].all

\* positions in trace of the queries made for one namespace
NamespaceQueries == {i \in KubeCalls : trace[i].op = "list" /\ ~trace[i].all}

\* C22: every query made for a namespace, one of the explicit set or of the
\* discovered list, lists the stacks of that namespace and of no other, so
\* that two queries made for two names list two namespaces.
C22_QueryScopedToItsNamespace ==
    /\ \A i \in NamespaceQueries :
        /\ trace[i].ns = trace[i].req
        /\ \A k \in DOMAIN trace[i].recs :
            trace[i].recs[k].namespace = trace[i].req
    /\ \A i, j \in NamespaceQueries :
        trace[i].req # trace[j].req => trace[i].ns # trace[j].ns

====
